---- MODULE Spec2Model ----
(***************************************************************************)
(* Model of pkg/metricsprovider/prometheus.go: the Prometheus fetcher of   *)
(* load-watcher.  FetchAllHostsMetrics issues one query per (method,       *)
(* metric) pair and folds each response into a host -> metrics mapping.    *)
(***************************************************************************)
EXTENDS Integers, Sequences, FiniteSets, TLC

(***************************************************************************)
(* Decoded JSON values (what encoding/json stores in an interface{}).      *)
(***************************************************************************)
JNull == [t |-> "null"]
JNum == [t |-> "number"]
JStr(s) == [t |-> "string", s |-> s]
JArr(elems) == [t |-> "array", elems |-> elems]
JObj(m) == [t |-> "object", m |-> m]

\* A Go map with no key (also what a nil map reads as).
EmptyMap == [k \in {} |-> JNull]

(***************************************************************************)
(* Program constants.                                                      *)
(***************************************************************************)
promHost == "prometheus-k8s:9090"
promQuery == "/api/v1/query?query="
prom_std_method == "stddev_over_time"
prom_avg_method == "avg_over_time"
prom_cpu_metric == "instance:node_cpu:ratio"
prom_mem_metric == "instance:node_memory_utilisation:ratio"
StatusOK == 200

\* The two range loops of FetchAllHostsMetrics, outer then inner.
Methods == <<prom_avg_method, prom_std_method>>
MetricNames == <<prom_cpu_metric, prom_mem_metric>>
Combos == (1..Len(Methods)) \X (1..Len(MetricNames))

\* watcher.CPU and watcher.Memory.
CPU == "CPU"
Memory == "Memory"

(***************************************************************************)
(* float64 values, in hundredths, and strconv.ParseFloat(s, 64): a         *)
(* syntax error gives 0, a well-formed number out of range gives +Inf,     *)
(* both with a non-nil error.                                              *)
(***************************************************************************)
Finite(h) == [class |-> "finite", hundredths |-> h]
PosInf == [class |-> "+Inf", hundredths |-> 0]
ZeroValue == Finite(0)

ParseFloat(s) ==
  CASE s = "0.73" -> [f |-> Finite(73), err |-> FALSE]
    [] s = "42.5" -> [f |-> Finite(4250), err |-> FALSE]
    [] s = "4.25e1" -> [f |-> Finite(4250), err |-> FALSE]
    [] s = "1e400" -> [f |-> PosInf, err |-> TRUE]
    [] OTHER -> [f |-> ZeroValue, err |-> TRUE]

\* The value strings the backend of the model uses.
SyntaxErrorStrings == {"abc"}
RangeErrorStrings == {"1e400"}

(***************************************************************************)
(* Bounds of the model.                                                    *)
(***************************************************************************)
MaxCalls == 2
Durations == {"5m", "15m"}

(***************************************************************************)
(* What the HTTP client hands back for one request: a transport error      *)
(* (resp is nil), or a status code and a body.  A body is either not       *)
(* JSON at all or a JSON document.                                         *)
(***************************************************************************)
NotJson == [wellFormed |-> FALSE, json |-> JNull]
Json(j) == [wellFormed |-> TRUE, json |-> j]
TransportError == [transportErr |-> TRUE, StatusCode |-> 0, Body |-> NotJson]
Http(status, body) == [transportErr |-> FALSE, StatusCode |-> status, Body |-> body]

\* The envelope Prometheus sends, and the bare shape {data: {result: ...}}.
PromEnvelope(result) ==
  JObj([status |-> JStr("success"),
        data |-> JObj([resultType |-> JStr("vector"), result |-> result])])
BareEnvelope(result) == JObj([data |-> JObj([result |-> result])])

Labels(host) == JObj([instance |-> JStr(host)])
Sample(s) == JArr(<<JNum, JStr(s)>>)
Series(host, s) == JObj([metric |-> Labels(host), value |-> Sample(s)])

RespStatus503 == Http(503, Json(PromEnvelope(Series("node-2", "0.73"))))
RespNotJson == Http(StatusOK, NotJson)
RespNoResult == Http(StatusOK, Json(JObj([data |-> JObj([resultType |-> JStr("vector")])])))
RespString == Http(StatusOK, Json(PromEnvelope(JStr("scalar"))))
RespSingle == Http(StatusOK, Json(PromEnvelope(Series("node-1", "0.73"))))
RespArray == Http(StatusOK, Json(BareEnvelope(
                JArr(<<Series("node-1", "abc"), Series("node-2", "42.5")>>))))
RespSameHost == Http(StatusOK, Json(PromEnvelope(
                JArr(<<Series("node-1", "0.73"), Series("node-1", "1e400")>>))))
RespNoMetric == Http(StatusOK, Json(BareEnvelope(JObj([value |-> Sample("4.25e1")]))))
RespMetricNotObject == Http(StatusOK, Json(BareEnvelope(JObj([metric |-> JStr("up")]))))
RespNoInstance == Http(StatusOK, Json(BareEnvelope(
                JObj([metric |-> JObj([job |-> JStr("node")]), value |-> Sample("0.73")]))))
RespInstanceNotString == Http(StatusOK, Json(BareEnvelope(
                JObj([metric |-> JObj([instance |-> JNum]), value |-> Sample("0.73")]))))
RespTwoValues == Http(StatusOK, Json(BareEnvelope(
                JObj([metric |-> Labels("node-2"),
                      value |-> Sample("0.73"), extra |-> Sample("42.5")]))))
RespScalar == Http(StatusOK, Json(PromEnvelope(Sample("0.73"))))

Responses ==
  { TransportError, RespStatus503, RespNotJson, RespNoResult, RespString,
    RespSingle, RespArray, RespSameHost, RespNoMetric,
    RespMetricNotObject, RespNoInstance, RespInstanceNotString,
    RespTwoValues, RespScalar }

(***************************************************************************)
(* json.NewDecoder(resp.Body).Decode(&res) with                            *)
(* res map[string]map[string]interface{}: a body that is not JSON leaves   *)
(* res nil; a top-level member that is not an object is skipped and        *)
(* reported as the error, and the other members are still decoded.         *)
(***************************************************************************)
Decode(body) ==
  IF ~body.wellFormed THEN [err |-> TRUE, res |-> EmptyMap]
  ELSE IF body.json.t = "null" THEN [err |-> FALSE, res |-> EmptyMap]
  ELSE IF body.json.t # "object" THEN [err |-> TRUE, res |-> EmptyMap]
  ELSE LET m == body.json.m
       IN [err |-> \E k \in DOMAIN m : m[k].t \notin {"object", "null"},
           res |-> [k \in {x \in DOMAIN m : m[x].t = "object"} |-> m[k].m]]

\* promdata, ok := res["data"]["result"]
LookupResult(res) ==
  IF "data" \in DOMAIN res /\ "result" \in DOMAIN res["data"]
    THEN [ok |-> TRUE, promdata |-> res["data"]["result"]]
    ELSE [ok |-> FALSE, promdata |-> JNull]

(***************************************************************************)
(* promdata2metric.  The range over the Go map visits the keys in an       *)
(* order the language leaves open, so the conversion is the set of its     *)
(* outcomes over all orders.  A failed type assertion or an index out of   *)
(* range panics.                                                           *)
(***************************************************************************)
Orders(S) ==
  {o \in [1..Cardinality(S) -> S] : \A a, b \in 1..Cardinality(S) : o[a] = o[b] => a = b}

\* As MetricType, with the two resource types exchanged.
MetricTypeSwapped(metric) == IF metric = prom_cpu_metric THEN Memory ELSE CPU

MetricType(metric) == IF metric = prom_cpu_metric THEN CPU ELSE Memory

\* One iteration of the loop of promdata2metric on key k with value v.
RangeStep(st, k, v) ==
  IF k = "metric"
    THEN IF v.t = "object"
           THEN IF "instance" \in DOMAIN v.m /\ v.m["instance"].t = "string"
                  THEN [st EXCEPT !.curHost = v.m["instance"].s]
                  ELSE [st EXCEPT !.panicked = TRUE]
           ELSE st
    ELSE IF v.t = "array" /\ Len(v.elems) >= 2 /\ v.elems[2].t = "string"
           THEN [st EXCEPT !.Value = ParseFloat(v.elems[2].s).f]
           ELSE [st EXCEPT !.panicked = TRUE]

RECURSIVE RangeLoop(_, _, _)
RangeLoop(st, promdata, order) ==
  IF order = <<>> \/ st.panicked THEN st
  ELSE RangeLoop(RangeStep(st, Head(order), promdata[Head(order)]), promdata, Tail(order))

NewMetric(name, type, rollup, value) ==
  [Name |-> name, Type |-> type, Rollup |-> rollup, Value |-> value]

Panicked == [panicked |-> TRUE, curMetric |-> NewMetric("", "", "", ZeroValue), curHost |-> ""]

promdata2metric(promdata, metric, method, rollup) ==
  { LET st == RangeLoop([panicked |-> FALSE, Value |-> ZeroValue, curHost |-> ""],
                        promdata, o)
    IN IF st.panicked THEN Panicked
       ELSE [panicked |-> FALSE,
             curMetric |-> NewMetric(method, MetricType(metric), rollup, st.Value),
             curHost |-> st.curHost]
    : o \in Orders(DOMAIN promdata) }

(***************************************************************************)
(* hostMetrics[curHost] = append(hostMetrics[curHost], curMetric)          *)
(***************************************************************************)
NoMetrics == [h \in {} |-> <<>>]

\* As AppendMetric, assigning the one-element slice instead of appending.
AppendMetricOverwrite(hostMetrics, curHost, curMetric) ==
  [h \in DOMAIN hostMetrics \cup {curHost} |->
     IF h = curHost THEN <<curMetric>> ELSE hostMetrics[h]]

\* As AppendMetric, putting the new record in front.
AppendMetricFront(hostMetrics, curHost, curMetric) ==
  [h \in DOMAIN hostMetrics \cup {curHost} |->
     IF h = curHost
       THEN IF h \in DOMAIN hostMetrics THEN <<curMetric>> \o hostMetrics[h]
                                        ELSE <<curMetric>>
       ELSE hostMetrics[h]]

AppendMetric(hostMetrics, curHost, curMetric) ==
  [h \in DOMAIN hostMetrics \cup {curHost} |->
     IF h = curHost
       THEN IF h \in DOMAIN hostMetrics THEN Append(hostMetrics[h], curMetric)
                                        ELSE <<curMetric>>
       ELSE hostMetrics[h]]

\* An outcome of one call of updateAllHostMetrics.
Crash(hostMetrics) == [panicked |-> TRUE, hostMetrics |-> hostMetrics]
Returns(hostMetrics) == [panicked |-> FALSE, hostMetrics |-> hostMetrics]

\* The array case: the loop over promdata.([]interface{}).
RECURSIVE FoldArray(_, _, _, _, _)
FoldArray(hostMetrics, elems, metric, method, rollup) ==
  IF elems = <<>> THEN {Returns(hostMetrics)}
  ELSE IF Head(elems).t # "object" THEN {Crash(hostMetrics)}
  ELSE UNION { IF c.panicked THEN {Crash(hostMetrics)}
               ELSE FoldArray(AppendMetric(hostMetrics, c.curHost, c.curMetric),
                              Tail(elems), metric, method, rollup)
               : c \in promdata2metric(Head(elems).m, metric, method, rollup) }

\* The single-object case.
FoldObject(hostMetrics, promdata, metric, method, rollup) ==
  { IF c.panicked THEN Crash(hostMetrics)
    ELSE Returns(AppendMetric(hostMetrics, c.curHost, c.curMetric))
    : c \in promdata2metric(promdata.m, metric, method, rollup) }

\* As FoldResult, asserting the array type where the switch has its default.
FoldResultAsserting(hostMetrics, promdata, metric, method, rollup) ==
  CASE promdata.t = "array" -> FoldArray(hostMetrics, promdata.elems, metric, method, rollup)
    [] promdata.t = "object" -> FoldObject(hostMetrics, promdata, metric, method, rollup)
    [] OTHER -> {Crash(hostMetrics)}

\* The type switch on promdata.
FoldResult(hostMetrics, promdata, metric, method, rollup) ==
  CASE promdata.t = "array" -> FoldArray(hostMetrics, promdata.elems, metric, method, rollup)
    [] promdata.t = "object" -> FoldObject(hostMetrics, promdata, metric, method, rollup)
    [] OTHER -> {Returns(hostMetrics)}

\* As updateAllHostMetrics, without the check of the status code.
updateIgnoringStatus(hostMetrics, resp, metric, method, rollup) ==
  IF resp.transportErr THEN {Crash(hostMetrics)}
  ELSE LET found == LookupResult(Decode(resp.Body).res)
       IN IF found.ok
            THEN FoldResult(hostMetrics, found.promdata, metric, method, rollup)
            ELSE {Returns(hostMetrics)}

\* updateAllHostMetrics from the return of client.Do on: the outcomes for
\* the response resp.  resp is nil after a transport error, and reading
\* resp.StatusCode then panics.
updateAllHostMetrics(hostMetrics, resp, metric, method, rollup) ==
  IF resp.transportErr THEN {Crash(hostMetrics)}
  ELSE IF resp.StatusCode # StatusOK THEN {Returns(hostMetrics)}
  ELSE LET found == LookupResult(Decode(resp.Body).res)
       IN IF found.ok
            THEN FoldResult(hostMetrics, found.promdata, metric, method, rollup)
            ELSE {Returns(hostMetrics)}

\* The request of one query: fmt.Sprintf("http://%s%s%s(%s[%s])", ...).
QueryURL(metric, method, rollup) ==
  <<"http://", promHost, promQuery, method, "(", metric, "[", rollup, "])">>

(***************************************************************************)
(* State.                                                                  *)
(***************************************************************************)
VARIABLES
  backend,      \* what the backend answers to each of the 4 queries
  pc,           \* "idle", "request", "response", "return", "panicked"
  window,       \* window.Duration of the call in progress
  i, j,         \* positions of the method loop and of the metric loop
  hostMetrics,  \* the mapping under construction
  requests,     \* the requests the call in progress has issued
  calls,        \* number of calls of FetchAllHostsMetrics so far
  returned      \* what the caller received from the last call that returned

vars == <<backend, pc, window, i, j, hostMetrics, requests, calls, returned>>

\* The caller before the first return.
NothingReturned == [valid |-> FALSE, window |-> "", hostMetrics |-> NoMetrics, err |-> "nil"]

Init ==
  /\ backend \in [Combos -> Responses]
  /\ pc = "idle"
  /\ window = ""
  /\ i = 1
  /\ j = 1
  /\ hostMetrics = NoMetrics
  /\ requests = <<>>
  /\ calls = 0
  /\ returned = NothingReturned

\* As Call, reusing the mapping of the previous call.
CallKeepingMapping(w) ==
  /\ pc = "idle"
  /\ calls < MaxCalls
  /\ calls' = calls + 1
  /\ window' = w
  /\ i' = 1
  /\ j' = 1
  /\ requests' = <<>>
  /\ pc' = "request"
  /\ UNCHANGED <<backend, returned, hostMetrics>>

\* FetchAllHostsMetrics is entered: a fresh mapping, both loops at their start.
Call(w) ==
  /\ pc = "idle"
  /\ calls < MaxCalls
  /\ calls' = calls + 1
  /\ window' = w
  /\ hostMetrics' = NoMetrics
  /\ i' = 1
  /\ j' = 1
  /\ requests' = <<>>
  /\ pc' = "request"
  /\ UNCHANGED <<backend, returned>>

\* updateAllHostMetrics up to client.Do: the request goes out.
SendRequest ==
  /\ pc = "request"
  /\ requests' = Append(requests, QueryURL(MetricNames[j], Methods[i], window))
  /\ pc' = "response"
  /\ UNCHANGED <<backend, window, i, j, hostMetrics, calls, returned>>

\* As LoopNext, asking again after a status other than OK.
LoopNextRetrying ==
  IF ~backend[<<i, j>>].transportErr /\ backend[<<i, j>>].StatusCode # StatusOK
    THEN [pc |-> "request", i |-> i, j |-> j]
  ELSE IF j < Len(MetricNames) THEN [pc |-> "request", i |-> i, j |-> j + 1]
  ELSE IF i < Len(Methods) THEN [pc |-> "request", i |-> i + 1, j |-> 1]
  ELSE [pc |-> "return", i |-> i, j |-> j]

\* The loop headers after one call of updateAllHostMetrics returned: the
\* inner loop moves on, then the outer one, then the function returns.
LoopNext ==
  IF j < Len(MetricNames) THEN [pc |-> "request", i |-> i, j |-> j + 1]
  ELSE IF i < Len(Methods) THEN [pc |-> "request", i |-> i + 1, j |-> 1]
  ELSE [pc |-> "return", i |-> i, j |-> j]

\* client.Do returns and the rest of updateAllHostMetrics runs.
FoldResponse ==
  /\ pc = "response"
  /\ \E out \in updateAllHostMetrics(hostMetrics, backend[<<i, j>>],
                                     MetricNames[j], Methods[i], window) :
       IF out.panicked
         THEN /\ pc' = "panicked"
              /\ UNCHANGED <<i, j, hostMetrics>>
         ELSE /\ hostMetrics' = out.hostMetrics
              /\ pc' = LoopNext.pc
              /\ i' = LoopNext.i
              /\ j' = LoopNext.j
  /\ UNCHANGED <<backend, window, requests, calls, returned>>

\* return hostMetrics, nil
Return ==
  /\ pc = "return"
  /\ returned' = [valid |-> TRUE, window |-> window, hostMetrics |-> hostMetrics, err |-> "nil"]
  /\ pc' = "idle"
  /\ UNCHANGED <<backend, window, i, j, hostMetrics, requests, calls>>

Next ==
  \/ \E w \in Durations : Call(w)
  \/ SendRequest
  \/ FoldResponse
  \/ Return

Spec == Init /\ [][Next]_vars

(***************************************************************************)
(* Vocabulary of the properties, stated on the responses themselves.       *)
(***************************************************************************)
Resp == backend[<<i, j>>]
Rank(a, b) == (a - 1) * Len(MetricNames) + b
OkResponse(resp) == ~resp.transportErr /\ resp.StatusCode = StatusOK
NonOkResponse(resp) == ~resp.transportErr /\ resp.StatusCode # StatusOK

\* The body is a JSON object with an object `data` that has a `result`.
HasResult(resp) ==
  /\ resp.Body.wellFormed
  /\ resp.Body.json.t = "object"
  /\ "data" \in DOMAIN resp.Body.json.m
  /\ resp.Body.json.m["data"].t = "object"
  /\ "result" \in DOMAIN resp.Body.json.m["data"].m
ResultOf(resp) == resp.Body.json.m["data"].m["result"]

\* The raw result objects an OK response carries.
RawEntries(resp) ==
  IF ~(OkResponse(resp) /\ HasResult(resp)) THEN <<>>
  ELSE IF ResultOf(resp).t = "object" THEN <<ResultOf(resp)>>
  ELSE IF ResultOf(resp).t = "array" THEN ResultOf(resp).elems
  ELSE <<>>

HasInstance(e) ==
  /\ "metric" \in DOMAIN e.m
  /\ e.m["metric"].t = "object"
  /\ "instance" \in DOMAIN e.m["metric"].m
  /\ e.m["metric"].m["instance"].t = "string"
\* The host a raw entry names: its instance, the empty string without one.
InstanceOf(e) == IF HasInstance(e) THEN e.m["metric"].m["instance"].s ELSE ""

IsSample(v) == v.t = "array" /\ Len(v.elems) = 2 /\ v.elems[2].t = "string"
\* A raw result object of the documented shape: metric.instance and value.
ValidEntry(e) ==
  /\ e.t = "object"
  /\ DOMAIN e.m = {"metric", "value"}
  /\ HasInstance(e)
  /\ IsSample(e.m["value"])
ValidResponse(resp) ==
  /\ OkResponse(resp) /\ HasResult(resp)
  /\ ResultOf(resp).t \in {"object", "array"}
  /\ \A k \in 1..Len(RawEntries(resp)) : ValidEntry(RawEntries(resp)[k])

MetricsOf(hm, h) == IF h \in DOMAIN hm THEN hm[h] ELSE <<>>
TypeOfCombo(c) == IF MetricNames[c[2]] = prom_cpu_metric THEN CPU ELSE Memory
FromCombo(m, c) == m.Name = Methods[c[1]] /\ m.Type = TypeOfCombo(c)
\* Every raw entry of the response of combination c has a record under its host.
Contributed(c) ==
  \A k \in 1..Len(RawEntries(backend[c])) :
    \E n \in 1..Len(MetricsOf(hostMetrics, InstanceOf(RawEntries(backend[c])[k]))) :
      FromCombo(hostMetrics[InstanceOf(RawEntries(backend[c])[k])][n], c)

(***************************************************************************)
(* C1: every call of FetchAllHostsMetrics runs to completion and returns   *)
(* with an empty error slot, whatever its requests yield: no failure of a  *)
(* request crashes the fetch.                                              *)
(***************************************************************************)
C1_NoFailureCrashesTheFetch ==
  /\ pc # "panicked"
  /\ returned.err = "nil"

(***************************************************************************)
(* C2: a response with a status other than OK leaves the mapping as it     *)
(* was (no host added, no sequence changed), the fetch moves on to the     *)
(* next combination, and at the return all 4 queries have been issued and  *)
(* every combination with a valid response has contributed its metrics.    *)
(***************************************************************************)
C2_NonOkStatusSkipsOnlyItsCombination ==
  /\ [][(pc = "response" /\ NonOkResponse(Resp)) =>
          /\ hostMetrics' = hostMetrics
          /\ pc' = IF Rank(i, j) = Cardinality(Combos) THEN "return" ELSE "request"
          /\ pc' = "request" => Rank(i', j') = Rank(i, j) + 1]_vars
  /\ [](pc = "return" /\ (\E c \in Combos : NonOkResponse(backend[c])) =>
          /\ Len(requests) = Cardinality(Combos)
          /\ \A c \in Combos : ValidResponse(backend[c]) => Contributed(c))

C2_Witness ==
  /\ pc = "return"
  /\ NonOkResponse(backend[<<1, 2>>])
  /\ ValidResponse(backend[<<1, 1>>]) /\ ValidResponse(backend[<<2, 1>>])
  /\ Contributed(<<1, 1>>) /\ Contributed(<<2, 1>>)
  /\ \E h \in DOMAIN hostMetrics : Len(hostMetrics[h]) >= 2

(***************************************************************************)
(* C3: a raw result object whose metric is missing or not an object, or    *)
(* whose instance is missing or not a string, is converted without a       *)
(* crash and its metric is appended under the empty-string host.           *)
(***************************************************************************)
C3_MalformedInstanceGivesEmptyHost ==
  [][(/\ pc = "response"
      /\ OkResponse(Resp) /\ HasResult(Resp)
      /\ ResultOf(Resp).t = "object"
      /\ ~HasInstance(ResultOf(Resp))
      /\ \A k \in DOMAIN ResultOf(Resp).m \ {"metric"} : IsSample(ResultOf(Resp).m[k]))
     => /\ pc' # "panicked"
        /\ Len(MetricsOf(hostMetrics', "")) = Len(MetricsOf(hostMetrics, "")) + 1]_vars

(***************************************************************************)
(* C4: an OK response whose result is one valid object (N = 1) or an       *)
(* array of N valid objects adds exactly N records in all, and to each     *)
(* host as many as there are result objects with that instance; and every  *)
(* record under a host comes from a raw entry of a folded response whose   *)
(* instance is that host.                                                  *)
(***************************************************************************)
RECURSIVE TotalOver(_, _)
TotalOver(hm, S) ==
  IF S = {} THEN 0
  ELSE LET h == CHOOSE x \in S : TRUE IN Len(hm[h]) + TotalOver(hm, S \ {h})
Total(hm) == TotalOver(hm, DOMAIN hm)
CountInstance(entries, h) ==
  Cardinality({k \in 1..Len(entries) : InstanceOf(entries[k]) = h})
\* The response of combination c has been folded into hostMetrics.
Folded(c) == Rank(c[1], c[2]) < Rank(i, j) \/ pc \in {"return", "idle"}

C4_EachEntryUnderItsInstance ==
  /\ [][(pc = "response" /\ ValidResponse(Resp)) =>
          /\ pc' # "panicked"
          /\ Total(hostMetrics') = Total(hostMetrics) + Len(RawEntries(Resp))
          /\ DOMAIN hostMetrics \subseteq DOMAIN hostMetrics'
          /\ \A h \in DOMAIN hostMetrics' :
               Len(hostMetrics'[h]) =
                 Len(MetricsOf(hostMetrics, h)) + CountInstance(RawEntries(Resp), h)]_vars
  /\ [](\A h \in DOMAIN hostMetrics : \A n \in 1..Len(hostMetrics[h]) :
          \E c \in Combos : \E k \in 1..Len(RawEntries(backend[c])) :
            /\ Folded(c)
            /\ FromCombo(hostMetrics[h][n], c)
            /\ RawEntries(backend[c])[k].t = "object"
            /\ InstanceOf(RawEntries(backend[c])[k]) = h)

C4_Witness ==
  /\ pc = "request" /\ i = 2 /\ j = 1
  /\ backend[<<1, 1>>] = RespSingle
  /\ backend[<<1, 2>>] = RespArray
  /\ Len(MetricsOf(hostMetrics, "node-1")) = 2
  /\ Len(MetricsOf(hostMetrics, "node-2")) = 1

(***************************************************************************)
(* C5: two calls with the same Window and the same backend responses       *)
(* return the same mapping: what a call is about to return is what the     *)
(* call before it returned.                                                *)
(***************************************************************************)
C5_SameResponsesSameMapping ==
  (pc = "return" /\ returned.valid /\ returned.window = window)
    => hostMetrics = returned.hostMetrics

(***************************************************************************)
(* C6: at the end of a call each host holds at most 4 records and at most  *)
(* one per (method, type) combination.                                     *)
(***************************************************************************)
AtMostOnePerCombination ==
  \A h \in DOMAIN hostMetrics :
    /\ Len(hostMetrics[h]) <= Cardinality(Combos)
    /\ \A c \in Combos :
         Cardinality({n \in 1..Len(hostMetrics[h]) : FromCombo(hostMetrics[h][n], c)}) <= 1

C6_AtMostOnePerCombination == pc = "return" => AtMostOnePerCombination

\* No two result objects of the response name the same host.
NoRepeatedHost(resp) ==
  \A a, b \in 1..Len(RawEntries(resp)) :
    (/\ a # b
     /\ RawEntries(resp)[a].t = "object"
     /\ RawEntries(resp)[b].t = "object")
    => InstanceOf(RawEntries(resp)[a]) # InstanceOf(RawEntries(resp)[b])

\* C6 as amended: the same bound, for the calls in which no response holds
\* two result objects with the same instance.
C6_AtMostOnePerCombinationOfDistinctHosts ==
  (pc = "return" /\ \A c \in Combos : NoRepeatedHost(backend[c]))
    => AtMostOnePerCombination

C6_Witness ==
  /\ pc = "return"
  /\ \A c \in Combos : NoRepeatedHost(backend[c])
  /\ \E h \in DOMAIN hostMetrics : Len(hostMetrics[h]) = Cardinality(Combos)
  /\ calls = MaxCalls

(***************************************************************************)
(* C7: a fold step only appends: each host's sequence before the step is a *)
(* prefix of its sequence after it, so the records of a host stand in the  *)
(* order of the queries: avg x cpu, avg x mem, stddev x cpu, stddev x mem. *)
(***************************************************************************)
IsPrefix(s, t) == Len(s) <= Len(t) /\ SubSeq(t, 1, Len(s)) = s
QueryRank(m) ==
  (IF m.Name = prom_avg_method THEN 0 ELSE 2) + (IF m.Type = CPU THEN 1 ELSE 2)

C7_FoldOnlyAppends ==
  /\ [][pc = "response" =>
          \A h \in DOMAIN hostMetrics :
            h \in DOMAIN hostMetrics' /\ IsPrefix(hostMetrics[h], hostMetrics'[h])]_vars
  /\ [](\A h \in DOMAIN hostMetrics : \A a, b \in 1..Len(hostMetrics[h]) :
          a < b => QueryRank(hostMetrics[h][a]) <= QueryRank(hostMetrics[h][b]))

C7_Witness ==
  /\ pc = "return"
  /\ \E h \in DOMAIN hostMetrics :
       /\ Len(hostMetrics[h]) = 3
       /\ QueryRank(hostMetrics[h][1]) = 1
       /\ QueryRank(hostMetrics[h][2]) = 3
       /\ QueryRank(hostMetrics[h][3]) = 4

(***************************************************************************)
(* C8: an OK response whose body cannot be decoded, has no data.result,    *)
(* or has a data.result that is neither an object nor an array adds no     *)
(* metric, and the fetch goes on to the next combination.  The statement   *)
(* of the claim leaves the crashes of C1 aside: it reads on the steps that *)
(* do not end in a panic.                                                  *)
(***************************************************************************)
\* Decode reports an error: the body is not JSON, is not a JSON object, or
\* has a top-level member that is not an object.
DecodeFails(body) ==
  \/ ~body.wellFormed
  \/ body.json.t \notin {"object", "null"}
  \/ /\ body.json.t = "object"
     /\ \E k \in DOMAIN body.json.m : body.json.m[k].t \notin {"object", "null"}

NothingAddedAndOn ==
  /\ hostMetrics' = hostMetrics
  /\ pc' = IF Rank(i, j) = Cardinality(Combos) THEN "return" ELSE "request"
  /\ pc' = "request" => Rank(i', j') = Rank(i, j) + 1

C8_UndecodableBodyAddsNothing ==
  [][(/\ pc = "response" /\ OkResponse(Resp)
      /\ \/ DecodeFails(Resp.Body)
         \/ ~HasResult(Resp)
         \/ ResultOf(Resp).t \notin {"object", "array"})
     => (pc' # "panicked" => NothingAddedAndOn)]_vars

\* C8 as amended: the same for a body that is not JSON or decodes to a
\* structure without data.result, or whose data.result has another shape.
\* A decoding error that leaves data.result in place does not stop the fold.
C8_NoResultAddsNothing ==
  [][(/\ pc = "response" /\ OkResponse(Resp)
      /\ \/ ~Resp.Body.wellFormed
         \/ ~HasResult(Resp)
         \/ ResultOf(Resp).t \notin {"object", "array"})
     => NothingAddedAndOn]_vars

C8_Witness ==
  /\ pc = "return"
  /\ backend[<<1, 1>>] = RespNotJson
  /\ backend[<<1, 2>>] = RespNoResult
  /\ backend[<<2, 1>>] = RespString
  /\ backend[<<2, 2>>] = RespSingle
  /\ DOMAIN hostMetrics = {"node-1"}
  /\ Len(hostMetrics["node-1"]) = 1

(***************************************************************************)
(* C9: a call issues its requests in the order avg x cpu, avg x mem,       *)
(* stddev x cpu, stddev x mem, each only after the response of the one     *)
(* before has been folded, none twice, and 4 in all when it returns.       *)
(***************************************************************************)
QueryOrder ==
  << <<prom_avg_method, prom_cpu_metric>>, <<prom_avg_method, prom_mem_metric>>,
     <<prom_std_method, prom_cpu_metric>>, <<prom_std_method, prom_mem_metric>> >>

C9_FourRequestsInOrder ==
  /\ Len(requests) <= Len(QueryOrder)
  /\ \A k \in 1..Len(requests) :
       /\ <<requests[k][4], requests[k][6]>> = QueryOrder[k]
       /\ requests[k][8] = window
  /\ pc = "request" => Len(requests) = Rank(i, j) - 1
  /\ pc = "response" => Len(requests) = Rank(i, j)
  /\ pc = "return" => Len(requests) = Len(QueryOrder)
  /\ returned.valid /\ pc = "idle" => Len(requests) = Len(QueryOrder)

C9_Witness ==
  /\ pc = "return"
  /\ Len(requests) = 4
  /\ NonOkResponse(backend[<<1, 1>>])
  /\ backend[<<1, 2>>] = RespNotJson
  /\ calls = MaxCalls

(***************************************************************************)
(* C10: every record made by the query (method, metric, rollup) has Name   *)
(* = method, Rollup = rollup and Type = CPU exactly for the CPU metric;    *)
(* a value string that does not parse still yields a record, of Value 0.   *)
(***************************************************************************)
\* The records a fold step added under host h, and the raw entries of h.
Added(h) == SubSeq(hostMetrics'[h], Len(MetricsOf(hostMetrics, h)) + 1, Len(hostMetrics'[h]))
EntriesOf(resp, h) ==
  LET Names(e) == InstanceOf(e) = h IN SelectSeq(RawEntries(resp), Names)
ValueString(e) == e.m["value"].elems[2].s

RecordFields ==
  \A h \in DOMAIN hostMetrics' : \A n \in 1..Len(Added(h)) :
    /\ Added(h)[n].Name = Methods[i]
    /\ Added(h)[n].Rollup = window
    /\ Added(h)[n].Type = CPU <=> MetricNames[j] = prom_cpu_metric
    /\ Added(h)[n].Type \in {CPU, Memory}

\* Under a valid response, the records added under h answer the entries of h.
ValueOfUnparsed(strings, value) ==
  ValidResponse(Resp) =>
    \A h \in DOMAIN hostMetrics' :
      /\ Len(Added(h)) = Len(EntriesOf(Resp, h))
      /\ \A n \in 1..Len(Added(h)) :
           ValueString(EntriesOf(Resp, h)[n]) \in strings => Added(h)[n].Value = value

====
